---------------------------- MODULE Spec2Model ----------------------------
(***************************************************************************)
(* A model of vmax2bella: the Morton decoders, the snapshot-resolving      *)
(* drivers (printSimpleVoxelCoordinates, printAllVisibleVoxels,            *)
(* justPrintVoxelCoordinates), parsePlistVoxelData's world model,         *)
(* decodeVoxels2, the retry loop of decompressLzfseToPlist and             *)
(* convert_voxelsoftype_to_ogt_vox.                                        *)
(*                                                                         *)
(* A plist node (boost::any) is modelled by the tag of the type it holds   *)
(* plus its value; a dictionary key that is missing has the tag "absent".  *)
(* C++ containers are modelled by TLA+ functions (std::map) and sequences  *)
(* (std::vector); a 0-based C++ index i is the TLA+ index i + 1.           *)
(***************************************************************************)
EXTENDS Integers, Sequences, FiniteSets, TLC

VARIABLES
    entry,              \* the entry point DL_main dispatched to
    root,               \* what rootDict holds at "snapshots": "absent", "array", "other"
    pc,                 \* position of the entry point: "open", "loop", "done"
    snapshotIndex,      \* loop variable of the snapshot loop
    cur,                \* snapshotsArray[snapshotIndex - 1], the snapshot processed last
    outcome,            \* how the last iteration ended: "none", "processed", "skipped", "error"
    finalVoxelState,    \* std::map<int64_t, std::map<tuple<int,int,int>, uint8_t>>
    writes,             \* the stores the last iteration made, in order
    visibleVoxels,      \* the lines printed after the loop
    worldModel,         \* parsePlistVoxelData: std::map<std::string, Chunk>
    result,             \* how the entry point ended: "none"; "true", "false", "void"
                        \* (returned); "error" (a void entry point returned after an
                        \* error message); "uncaught" (an exception left it)
    mIn,                \* Morton harness: the argument
    mOut,               \* Morton harness: the value returned
    dsData,             \* decodeVoxels2 harness: the buffer
    mortonOffset,       \* decodeVoxels2 harness: the offset argument
    voxels,             \* decodeVoxels2 harness: outcome of the call
    counter,            \* pair loop: (localX, localY, localZ) after the last pair
    run,                \* pair loop: pairs processed so far while every position
                        \* byte was 0; -1 once a position byte was not 0
    positionByte,       \* pair loop: the position byte of the last pair
    written,            \* pair loop: the local coordinate the last pair was stored at
    inSize,             \* decompressLzfseToPlist: bytes of the input file
    content,            \* decompressLzfseToPlist: bytes the input decodes to, -1 if it
                        \* is not an LZFSE stream
    outAllocatedSize,   \* decompressLzfseToPlist: size of outBuffer
    decodedSize,        \* decompressLzfseToPlist: what the decoder returned last
    retries,            \* decompressLzfseToPlist: passes of the loop that ended in
                        \* 'continue', counted modulo 2
    lzfsePc,            \* decompressLzfseToPlist: "decode" (in the retry loop), "write"
                        \* (after it), "true", "false" (returned), "thrown"
    voxelsOfType,       \* convert_voxelsoftype_to_ogt_vox: the argument
    ogtModel            \* convert_voxelsoftype_to_ogt_vox: what it returned

vars == <<entry, root, pc, snapshotIndex, cur, outcome, finalVoxelState, writes,
          visibleVoxels, worldModel, result, mIn, mOut, dsData, mortonOffset, voxels,
          counter, run, positionByte, written,
          inSize, content, outAllocatedSize, decodedSize, retries, lzfsePc,
          voxelsOfType, ogtModel>>

driverVars == <<entry, root, pc, snapshotIndex, cur, outcome, finalVoxelState, writes,
                visibleVoxels, worldModel, result>>
mortonVars == <<mIn, mOut>>
decodeVars == <<dsData, mortonOffset, voxels>>
pairVars == <<counter, run, positionByte, written>>
lzfseVars == <<inSize, content, outAllocatedSize, decodedSize, retries, lzfsePc>>
gridVars == <<voxelsOfType, ogtModel>>
unitVars == <<pairVars, lzfseVars, gridVars>>

-----------------------------------------------------------------------------
(* Bounds of the model *)

MaxSnapshots == 2       \* snapshots in the 'snapshots' array
MaxPairs == 1           \* (position, color) pairs in a voxel stream, all combinations
MaxSetBits == 2         \* bits set in a Morton code handed to the decoders
MaxRun == 32769         \* pairs of a stream whose position bytes are all 0
MaxInSize == 6          \* bytes of a compressed input file
MaxContent == 60        \* bytes a compressed input file decodes to
MaxAlloc == 128         \* bytes std::vector::resize can get; beyond it, it throws
MaxVoxels == 2          \* voxels handed to convert_voxelsoftype_to_ogt_vox

(* Program constants *)

ChunkIDBits == 24       \* bits of a chunk ID that decodeMortonChunkID reads
ChunkSize == 32         \* edge length of a chunk

-----------------------------------------------------------------------------
(* Bit arithmetic *)

\* (n >> i) & 1 ; \div rounds down, as the arithmetic shift of a negative int64_t does
Bit(n, i) == (n \div (2 ^ i)) % 2

\* v |= (bit << k)
OrBit(v, bit, k) == IF bit = 1 /\ Bit(v, k) = 0 THEN v + 2 ^ k ELSE v

-----------------------------------------------------------------------------
(* decodeMortonChunkID: the 24-bit chunk decode *)

RECURSIVE ChunkIDLoop(_, _, _)
ChunkIDLoop(mortonID, i, xyz) ==
    IF i >= ChunkIDBits THEN xyz
    ELSE LET bit == Bit(mortonID, i)
         IN  IF i % 3 = 0
             THEN ChunkIDLoop(mortonID, i + 1, <<OrBit(xyz[1], bit, i \div 3), xyz[2], xyz[3]>>)
             ELSE IF i % 3 = 1
             THEN ChunkIDLoop(mortonID, i + 1, <<xyz[1], OrBit(xyz[2], bit, i \div 3), xyz[3]>>)
             ELSE ChunkIDLoop(mortonID, i + 1, <<xyz[1], xyz[2], OrBit(xyz[3], bit, i \div 3)>>)

\* a decode that reads the magnitude of a negative chunk ID
ChunkIDOfMagnitude(mortonID) ==
    ChunkIDLoop(IF mortonID < 0 THEN 0 - mortonID ELSE mortonID, 0, <<0, 0, 0>>)

\* a decode that assigns code bits 3k to z and 3k + 2 to x
ChunkIDWithZFirst(mortonID) ==
    LET xyz == ChunkIDLoop(mortonID, 0, <<0, 0, 0>>) IN <<xyz[3], xyz[2], xyz[1]>>

\* a decode that assigns code bits 3k + 1 to z and 3k + 2 to y
ChunkIDWithYZSwapped(mortonID) ==
    LET xyz == ChunkIDLoop(mortonID, 0, <<0, 0, 0>>) IN <<xyz[1], xyz[3], xyz[2]>>

decodeMortonChunkID(mortonID) == ChunkIDLoop(mortonID, 0, <<0, 0, 0>>)

\* the decode of a byte with x and y exchanged
decodeMortonWithXYSwapped(code) ==
    LET xyz == ChunkIDLoop(code, 0, <<0, 0, 0>>) IN <<xyz[2], xyz[1], xyz[3]>>

\* the decode of a byte that packs the axes side by side: x in bits 0 .. 2,
\* y in bits 3 .. 5, z in bits 6 .. 7
decodeMortonPacked(code) == <<code % 8, (code \div 8) % 8, (code \div 64) % 4>>

\* the decode of a byte that gives bit 7 to z instead of y
decodeMortonWithBit7InZ(code) ==
    <<Bit(code, 0) + 2 * Bit(code, 3) + 4 * Bit(code, 6),
      Bit(code, 1) + 2 * Bit(code, 4),
      Bit(code, 2) + 2 * Bit(code, 5) + 4 * Bit(code, 7)>>

(* decodeMorton: the 8-bit decode of a position byte *)
decodeMorton(code) ==
    LET x == (IF Bit(code, 0) = 1 THEN 1 ELSE 0) + (IF Bit(code, 3) = 1 THEN 2 ELSE 0)
             + (IF Bit(code, 6) = 1 THEN 4 ELSE 0)
        y == (IF Bit(code, 1) = 1 THEN 1 ELSE 0) + (IF Bit(code, 4) = 1 THEN 2 ELSE 0)
             + (IF Bit(code, 7) = 1 THEN 4 ELSE 0)
        z == (IF Bit(code, 2) = 1 THEN 1 ELSE 0) + (IF Bit(code, 5) = 1 THEN 2 ELSE 0)
    IN  <<x, y, z>>

-----------------------------------------------------------------------------
(* The interleave the chunk-ID codec inverts: bit k of x at code bit 3k,    *)
(* bit k of y at 3k + 1, bit k of z at 3k + 2 (8 bits per axis).            *)

RECURSIVE InterleaveFrom(_, _, _, _)
InterleaveFrom(k, x, y, z) ==
    IF k >= ChunkIDBits \div 3 THEN 0
    ELSE Bit(x, k) * 2 ^ (3 * k) + Bit(y, k) * 2 ^ (3 * k + 1) + Bit(z, k) * 2 ^ (3 * k + 2)
         + InterleaveFrom(k + 1, x, y, z)

MortonEncode(xyz) == InterleaveFrom(0, xyz[1], xyz[2], xyz[3])

-----------------------------------------------------------------------------
(* Inputs of the Morton harness: codes and points with few bits set *)

RECURSIVE CodesWith(_)
CodesWith(k) ==
    IF k = 0 THEN {0}
    ELSE LET less == CodesWith(k - 1)
         IN  less \cup {p[1] + 2 ^ p[2] :
                           p \in {q \in less \X (0 .. ChunkIDBits - 1) : Bit(q[1], q[2]) = 0}}

MortonCodes == CodesWith(MaxSetBits)

AxisValues == {0, 1, 2, 3, 5, 128, 255}
MortonPoints == AxisValues \X AxisValues \X AxisValues

\* the codes of the format comment's examples and their neighbours
KnownCodes == {43, 67, 73, 134}

\* every uint8_t, and every point of the 8 x 8 x 4 space
Bytes == 0 .. 255
BytePoints == (0 .. 7) \X (0 .. 7) \X (0 .. 3)

\* int64_t chunk IDs outside 0 .. 2^24 - 1: negative ones and ones with bits
\* set at 24 and above
WideIDs ==
    {0 - 1, 0 - 2, 0 - 2 ^ 24, 0 - 2 ^ 24 - 5, 0 - 2 ^ 30 + 73,
     2 ^ 24, 2 ^ 24 + 7, 2 ^ 25 + 2 ^ 23, 2 ^ 30 + 73}

MortonInputs ==
    [kind : {"code"}, code : MortonCodes \cup KnownCodes \cup WideIDs, point : {<<0, 0, 0>>}]
    \cup [kind : {"point"}, code : {0}, point : MortonPoints]
    \cup [kind : {"byte"}, code : Bytes, point : {<<0, 0, 0>>}]
    \cup [kind : {"bytepoint"}, code : {0}, point : BytePoints]

NoResult == [done |-> FALSE, xyz |-> <<0, 0, 0>>]

(* The harness: one call of decodeMortonChunkID, on a code or on the        *)
(* interleave of a point.                                                   *)
DecodeChunkID ==
    /\ mIn.kind = "code"
    /\ ~mOut.done
    /\ mOut' = [done |-> TRUE, xyz |-> decodeMortonChunkID(mIn.code)]
    /\ UNCHANGED <<mIn, driverVars, decodeVars, unitVars>>

DecodeEncoded ==
    /\ mIn.kind = "point"
    /\ ~mOut.done
    /\ mOut' = [done |-> TRUE, xyz |-> decodeMortonChunkID(MortonEncode(mIn.point))]
    /\ UNCHANGED <<mIn, driverVars, decodeVars, unitVars>>

(* One call of decodeMorton, on a byte or on the interleave of a point of   *)
(* the 8 x 8 x 4 space (the argument is a uint8_t).                         *)
DecodeByte ==
    /\ mIn.kind = "byte"
    /\ ~mOut.done
    /\ mOut' = [done |-> TRUE, xyz |-> decodeMorton(mIn.code)]
    /\ UNCHANGED <<mIn, driverVars, decodeVars, unitVars>>

DecodeEncodedByte ==
    /\ mIn.kind = "bytepoint"
    /\ ~mOut.done
    /\ mOut' = [done |-> TRUE, xyz |-> decodeMorton(MortonEncode(mIn.point) % 256)]
    /\ UNCHANGED <<mIn, driverVars, decodeVars, unitVars>>

-----------------------------------------------------------------------------
(* The document: the elements of the 'snapshots' array.                     *)
(* A snapshot is modelled by the type tag of each node the code looks at    *)
(* (node: the array element, s, s.id, s.id.c, s.ds, s.lc, and the           *)
(* top-level c) and by the values: chunk (s.id.c), t (s.id.t), data (the    *)
(* bytes of s.ds), table (the indices of the non-zero bytes of s.lc) and    *)
(* topval (the number a top-level string c spells).                         *)

PairSet == {<<0, 0>>, <<0, 38>>, <<14, 1>>}

RECURSIVE StreamsOf(_)
StreamsOf(n) ==
    IF n = 0 THEN {<<>>}
    ELSE LET less == StreamsOf(n - 1)
         IN  less \cup {d \o p : d \in less, p \in PairSet}

\* all streams of up to MaxPairs pairs, and six longer ones: a voxel followed
\* by an empty slot, an empty slot followed by a voxel, a jump followed by a
\* sequential voxel, a voxel followed by one odd trailing byte, two jumps to
\* the same position, a jump followed by two sequential voxels
Streams ==
    StreamsOf(MaxPairs)
        \cup {<<0, 38, 0, 0>>, <<0, 0, 0, 38>>, <<14, 1, 0, 38>>, <<0, 38, 7>>,
              <<14, 1, 14, 2>>, <<14, 1, 0, 38, 0, 5>>}

\* 2^24 is a 64-bit chunk ID with the low 24 bits of chunk ID 0
ChunkIDs == {0, 7, 2 ^ ChunkIDBits}
HistoryTypes == {2, 3, 5}           \* undo, redo, selection

Snap(chunk, t, data) ==
    [node |-> "dict", s |-> "dict", id |-> "dict", c |-> "int64", chunk |-> chunk,
     t |-> t, ds |-> "data", data |-> data, lc |-> "data", table |-> {0},
     topc |-> "absent", topval |-> 0]

\* chunk 0 with every stream; the other chunk IDs with a voxel and with a jump
Checkpoints ==
    {Snap(0, 4, d) : d \in Streams}
        \cup {Snap(c, 4, d) : c \in ChunkIDs \ {0}, d \in {<<0, 38>>, <<14, 1>>}}
History == {Snap(0, t, d) : t \in HistoryTypes, d \in {<<0, 38>>, <<14, 1>>}}

\* one required node missing or of the wrong type; the rest would store a voxel
Sound == Snap(0, 4, <<0, 38>>)
Defective ==
    {[Sound EXCEPT !.node = "other"],
     [Sound EXCEPT !.s = "absent"], [Sound EXCEPT !.s = "other"],
     [Sound EXCEPT !.id = "absent"], [Sound EXCEPT !.id = "other"],
     [Sound EXCEPT !.c = "absent"], [Sound EXCEPT !.c = "other"],
     [Sound EXCEPT !.ds = "absent"], [Sound EXCEPT !.ds = "other"]}

\* what only parsePlistVoxelData reads: s.lc and the top-level c
TableVariants ==
    {[Sound EXCEPT !.lc = "absent"], [Sound EXCEPT !.lc = "other"],
     [Sound EXCEPT !.table = {}], [Sound EXCEPT !.table = {0, 73}],
     [Sound EXCEPT !.topc = "string", !.topval = 7],
     [Sound EXCEPT !.topc = "string", !.topval = 7, !.id = "absent"],
     [Sound EXCEPT !.topc = "text", !.id = "absent"],
     [Sound EXCEPT !.topc = "other", !.id = "absent"]}

\* the snapshots handed to the three printing drivers, and to parsePlistVoxelData
Snapshots == Checkpoints \cup History \cup Defective
ParseSnapshots == Checkpoints \cup Defective \cup TableVariants

-----------------------------------------------------------------------------
(* std::map stores *)

EmptyMap == [k \in {} |-> 0]

\* m[key] = value
Store(m, key, value) == [k \in DOMAIN m \cup {key} |-> IF k = key THEN value ELSE m[k]]

\* a store into a state that keeps the map of one chunk ID only
StoreVoxelForgettingOthers(state, chunkID, pos, color) ==
    LET inner == IF chunkID \in DOMAIN state THEN state[chunkID] ELSE EmptyMap
    IN  Store(EmptyMap, chunkID, Store(inner, pos, color))

\* a store that leaves an entry that is already there as it is (map::insert)
StoreVoxelKeepingFirst(state, chunkID, pos, color) ==
    LET inner == IF chunkID \in DOMAIN state THEN state[chunkID] ELSE EmptyMap
    IN  Store(state, chunkID, IF pos \in DOMAIN inner THEN inner ELSE Store(inner, pos, color))

\* state[chunkID][pos] = color ; operator[] creates the inner map when it is missing
StoreVoxel(state, chunkID, pos, color) ==
    Store(state, chunkID,
          Store(IF chunkID \in DOMAIN state THEN state[chunkID] ELSE EmptyMap, pos, color))

\* a counter increment that leaves z at 32 instead of wrapping it to 0
AdvanceWithoutWrap(local) ==
    LET x1 == local[1] + 1
        y1 == local[2] + 1
        z1 == local[3] + 1
    IN  IF ~(x1 >= ChunkSize) THEN <<x1, local[2], local[3]>>
        ELSE IF ~(y1 >= ChunkSize) THEN <<0, y1, local[3]>>
        ELSE <<0, 0, z1>>

\* a counter increment that carries into y one cell late (localX > 32)
AdvanceCarryingLate(local) ==
    LET x1 == local[1] + 1
        y1 == local[2] + 1
        z1 == local[3] + 1
    IN  IF ~(x1 > ChunkSize) THEN <<x1, local[2], local[3]>>
        ELSE IF ~(y1 >= ChunkSize) THEN <<0, y1, local[3]>>
        ELSE IF ~(z1 >= ChunkSize) THEN <<0, 0, z1>>
        ELSE <<0, 0, 0>>

\* localX++ with its carries into localY and localZ, and the wrap of localZ
Advance(local) ==
    LET x1 == local[1] + 1
        y1 == local[2] + 1
        z1 == local[3] + 1
    IN  IF ~(x1 >= ChunkSize) THEN <<x1, local[2], local[3]>>
        ELSE IF ~(y1 >= ChunkSize) THEN <<0, y1, local[3]>>
        ELSE IF ~(z1 >= ChunkSize) THEN <<0, 0, z1>>
        ELSE <<0, 0, 0>>

\* a world origin scaled by a chunk edge of 8
OriginOfEdge8(chunkID) ==
    LET chunk == decodeMortonChunkID(chunkID)
    IN  <<chunk[1] * 8, chunk[2] * 8, chunk[3] * 8>>

Origin(chunkID) ==
    LET chunk == decodeMortonChunkID(chunkID)
    IN  <<chunk[1] * ChunkSize, chunk[2] * ChunkSize, chunk[3] * ChunkSize>>

-----------------------------------------------------------------------------
(* printSimpleVoxelCoordinates *)

\* a pair loop that advances the counter after every pair, a jump included
RECURSIVE SimplePairLoopAlwaysAdvancing(_, _, _, _, _)
SimplePairLoopAlwaysAdvancing(voxelData, i, chunkID, worldOrigin, st) ==
    IF ~(i < Len(voxelData)) THEN st
    ELSE IF ~(i + 1 < Len(voxelData))
    THEN SimplePairLoopAlwaysAdvancing(voxelData, i + 2, chunkID, worldOrigin, st)
    ELSE
      LET position == voxelData[i + 1]
          color == voxelData[i + 2]
          local == IF position # 0 THEN decodeMorton(position) ELSE st.local
          world == <<worldOrigin[1] + local[1], worldOrigin[2] + local[2],
                     worldOrigin[3] + local[3]>>
      IN  SimplePairLoopAlwaysAdvancing(voxelData, i + 2, chunkID, worldOrigin,
              [local |-> Advance(local),
               state |-> StoreVoxel(st.state, chunkID, world, color),
               writes |-> Append(st.writes,
                                 [chunkID |-> chunkID, offset |-> i, position |-> position,
                                  color |-> color, local |-> local, world |-> world])])

\* the pair loop; st = [local, state, writes]
RECURSIVE SimplePairLoop(_, _, _, _, _)
SimplePairLoop(voxelData, i, chunkID, worldOrigin, st) ==
    IF ~(i < Len(voxelData)) THEN st
    ELSE IF ~(i + 1 < Len(voxelData)) THEN SimplePairLoop(voxelData, i + 2, chunkID, worldOrigin, st)
    ELSE
      LET position == voxelData[i + 1]
          color == voxelData[i + 2]
          local == IF position # 0 THEN decodeMorton(position) ELSE st.local
          world == <<worldOrigin[1] + local[1], worldOrigin[2] + local[2],
                     worldOrigin[3] + local[3]>>
          next == IF position = 0 THEN Advance(local) ELSE local
      IN  SimplePairLoop(voxelData, i + 2, chunkID, worldOrigin,
              [local |-> next,
               state |-> StoreVoxel(st.state, chunkID, world, color),
               writes |-> Append(st.writes,
                                 [chunkID |-> chunkID, offset |-> i, position |-> position,
                                  color |-> color, local |-> local, world |-> world])])

\* an iteration that does not check the type of s.id.c and reads it as 0
SimpleIterationTrustingC(state, snapshot) ==
    LET same(how) == [state |-> state, writes |-> <<>>, outcome |-> how]
    IN  IF snapshot.node # "dict" THEN same("error")
        ELSE IF snapshot.s = "absent" THEN same("skipped")
        ELSE IF snapshot.s # "dict" THEN same("error")
        ELSE IF snapshot.id = "absent" THEN same("skipped")
        ELSE IF snapshot.id # "dict" THEN same("error")
        ELSE IF snapshot.c = "absent" THEN same("skipped")
        ELSE IF snapshot.ds = "absent" THEN same("skipped")
        ELSE IF snapshot.ds # "data" THEN same("error")
        ELSE LET chunkID == IF snapshot.c = "int64" THEN snapshot.chunk ELSE 0
                 st == SimplePairLoop(snapshot.data, 0, chunkID, Origin(chunkID),
                                      [local |-> <<0, 0, 0>>, state |-> state, writes |-> <<>>])
             IN  [state |-> st.state, writes |-> st.writes, outcome |-> "processed"]

\* one iteration of the snapshot loop
\* an iteration that does not start the counter again at (0,0,0) for a chunk seen before
SimpleIterationResumingCounter(state, snapshot) ==
    LET same(how) == [state |-> state, writes |-> <<>>, outcome |-> how]
    IN  IF snapshot.node # "dict" THEN same("error")
        ELSE IF snapshot.s = "absent" THEN same("skipped")
        ELSE IF snapshot.s # "dict" THEN same("error")
        ELSE IF snapshot.id = "absent" THEN same("skipped")
        ELSE IF snapshot.id # "dict" THEN same("error")
        ELSE IF snapshot.c = "absent" THEN same("skipped")
        ELSE IF snapshot.c # "int64" THEN same("error")
        ELSE IF snapshot.ds = "absent" THEN same("skipped")
        ELSE IF snapshot.ds # "data" THEN same("error")
        ELSE LET st == SimplePairLoop(snapshot.data, 0, snapshot.chunk, Origin(snapshot.chunk),
                                      [local |-> IF snapshot.chunk \in DOMAIN state THEN <<1, 0, 0>> ELSE <<0, 0, 0>>,
                                       state |-> state, writes |-> <<>>])
             IN  [state |-> st.state, writes |-> st.writes, outcome |-> "processed"]

SimpleIteration(state, snapshot) ==
    LET same(how) == [state |-> state, writes |-> <<>>, outcome |-> how]
    IN  IF snapshot.node # "dict" THEN same("error")
        ELSE IF snapshot.s = "absent" THEN same("skipped")
        ELSE IF snapshot.s # "dict" THEN same("error")
        ELSE IF snapshot.id = "absent" THEN same("skipped")
        ELSE IF snapshot.id # "dict" THEN same("error")
        ELSE IF snapshot.c = "absent" THEN same("skipped")
        ELSE IF snapshot.c # "int64" THEN same("error")
        ELSE IF snapshot.ds = "absent" THEN same("skipped")
        ELSE IF snapshot.ds # "data" THEN same("error")
        ELSE LET st == SimplePairLoop(snapshot.data, 0, snapshot.chunk, Origin(snapshot.chunk),
                                      [local |-> <<0, 0, 0>>, state |-> state, writes |-> <<>>])
             IN  [state |-> st.state, writes |-> st.writes, outcome |-> "processed"]

\* the keys (chunkID, pos) of the entries that are collected: color != 0
Visible(state) ==
    {k \in UNION {{<<c, p>> : p \in DOMAIN state[c]} : c \in DOMAIN state} :
        state[k[1]][k[2]] # 0}

\* the comparator of printSimpleVoxelCoordinates and printAllVisibleVoxels: x, y, z only
CoordLess(a, b) ==
    IF a[1] # b[1] THEN a[1] < b[1]
    ELSE IF a[2] # b[2] THEN a[2] < b[2]
    ELSE a[3] < b[3]

\* std::sort with CoordLess: every order of the entries the comparator leaves
\* unordered is a possible result (std::sort is not stable)
RECURSIVE CoordSorted(_, _)
CoordSorted(state, keys) ==
    IF keys = {} THEN {<<>>}
    ELSE LET least == {k \in keys : \A j \in keys : ~CoordLess(j[2], k[2])}
         IN  UNION {{<<<<k[2][1], k[2][2], k[2][3], state[k[1]][k[2]]>>>> \o rest :
                        rest \in CoordSorted(state, keys \ {k})} : k \in least}

SimpleStep ==
    /\ entry = "printSimple"
    /\ pc = "loop"
    /\ snapshotIndex < MaxSnapshots
    /\ \E snapshot \in Snapshots :
          LET r == SimpleIteration(finalVoxelState, snapshot)
          IN  /\ cur' = snapshot
              /\ finalVoxelState' = r.state
              /\ writes' = r.writes
              /\ outcome' = r.outcome
    /\ snapshotIndex' = snapshotIndex + 1
    /\ UNCHANGED <<entry, root, pc, visibleVoxels, worldModel, result, mortonVars, decodeVars, unitVars>>

SimplePrint ==
    /\ entry = "printSimple"
    /\ pc = "loop"
    /\ \E lines \in CoordSorted(finalVoxelState, Visible(finalVoxelState)) :
          visibleVoxels' = lines
    /\ pc' = "done"
    /\ result' = "void"
    /\ UNCHANGED <<entry, root, snapshotIndex, cur, outcome, finalVoxelState, writes, worldModel,
                   mortonVars, decodeVars, unitVars>>

-----------------------------------------------------------------------------
(* printAllVisibleVoxels *)

PrintLimit == 100       \* lines printAllVisibleVoxels prints at most

RECURSIVE AllPairLoop(_, _, _, _, _)
AllPairLoop(voxelData, i, chunkID, worldOrigin, st) ==
    IF ~(i < Len(voxelData)) THEN st
    ELSE IF ~(i + 1 < Len(voxelData)) THEN AllPairLoop(voxelData, i + 2, chunkID, worldOrigin, st)
    ELSE
      LET position == voxelData[i + 1]
          color == voxelData[i + 2]
          local == IF position # 0 THEN decodeMorton(position) ELSE st.local
          world == <<worldOrigin[1] + local[1], worldOrigin[2] + local[2],
                     worldOrigin[3] + local[3]>>
          next == IF position = 0 THEN Advance(local) ELSE local
      IN  AllPairLoop(voxelData, i + 2, chunkID, worldOrigin,
              [local |-> next,
               state |-> StoreVoxel(st.state, chunkID, world, color),
               writes |-> Append(st.writes,
                                 [chunkID |-> chunkID, offset |-> i, position |-> position,
                                  color |-> color, local |-> local, world |-> world])])

AllIteration(state, snapshot) ==
    LET same(how) == [state |-> state, writes |-> <<>>, outcome |-> how]
    IN  IF snapshot.node # "dict" THEN same("error")
        ELSE IF snapshot.s = "absent" THEN same("skipped")
        ELSE IF snapshot.s # "dict" THEN same("error")
        ELSE IF snapshot.id = "absent" THEN same("skipped")
        ELSE IF snapshot.id # "dict" THEN same("error")
        ELSE IF snapshot.c = "absent" THEN same("skipped")
        ELSE IF snapshot.c # "int64" THEN same("error")
        ELSE IF snapshot.ds = "absent" THEN same("skipped")
        ELSE IF snapshot.ds # "data" THEN same("error")
        ELSE LET st == AllPairLoop(snapshot.data, 0, snapshot.chunk, Origin(snapshot.chunk),
                                   [local |-> <<0, 0, 0>>, state |-> state, writes |-> <<>>])
             IN  [state |-> st.state, writes |-> st.writes, outcome |-> "processed"]

\* the sorted vector of (world, color, chunk) tuples
RECURSIVE AllSorted(_, _)
AllSorted(state, keys) ==
    IF keys = {} THEN {<<>>}
    ELSE LET least == {k \in keys : \A j \in keys : ~CoordLess(j[2], k[2])}
         IN  UNION {{<<<<k[2][1], k[2][2], k[2][3], state[k[1]][k[2]]>>
                         \o decodeMortonChunkID(k[1])>> \o rest :
                        rest \in AllSorted(state, keys \ {k})} : k \in least}

\* the loop that prints breaks after PrintLimit lines
FirstLines(lines) ==
    IF Len(lines) > PrintLimit THEN SubSeq(lines, 1, PrintLimit) ELSE lines

AllStep ==
    /\ entry = "printAll"
    /\ pc = "loop"
    /\ snapshotIndex < MaxSnapshots
    /\ \E snapshot \in Snapshots :
          LET r == AllIteration(finalVoxelState, snapshot)
          IN  /\ cur' = snapshot
              /\ finalVoxelState' = r.state
              /\ writes' = r.writes
              /\ outcome' = r.outcome
    /\ snapshotIndex' = snapshotIndex + 1
    /\ UNCHANGED <<entry, root, pc, visibleVoxels, worldModel, result, mortonVars, decodeVars, unitVars>>

AllPrint ==
    /\ entry = "printAll"
    /\ pc = "loop"
    /\ \E lines \in AllSorted(finalVoxelState, Visible(finalVoxelState)) :
          visibleVoxels' = FirstLines(lines)
    /\ pc' = "done"
    /\ result' = "void"
    /\ UNCHANGED <<entry, root, snapshotIndex, cur, outcome, finalVoxelState, writes, worldModel,
                   mortonVars, decodeVars, unitVars>>

-----------------------------------------------------------------------------
(* justPrintVoxelCoordinates *)

RECURSIVE JustPairLoop(_, _, _, _, _)
JustPairLoop(voxelData, j, chunkID, worldOrigin, st) ==
    IF ~(j < Len(voxelData)) THEN st
    ELSE IF j + 1 >= Len(voxelData) THEN JustPairLoop(voxelData, j + 2, chunkID, worldOrigin, st)
    ELSE
      LET position == voxelData[j + 1]
          color == voxelData[j + 2]
          local == IF position # 0 THEN decodeMorton(position) ELSE st.local
          world == <<worldOrigin[1] + local[1], worldOrigin[2] + local[2],
                     worldOrigin[3] + local[3]>>
          next == IF position = 0 THEN Advance(local) ELSE local
      IN  JustPairLoop(voxelData, j + 2, chunkID, worldOrigin,
              [local |-> next,
               state |-> StoreVoxel(st.state, chunkID, world, color),
               writes |-> Append(st.writes,
                                 [chunkID |-> chunkID, offset |-> j, position |-> position,
                                  color |-> color, local |-> local, world |-> world])])

JustIteration(voxelMap, snapshot) ==
    LET same(how) == [state |-> voxelMap, writes |-> <<>>, outcome |-> how]
    IN  IF snapshot.node # "dict" THEN same("error")
        ELSE IF snapshot.s = "absent" THEN same("skipped")
        ELSE IF snapshot.s # "dict" THEN same("error")
        ELSE IF snapshot.id = "absent" THEN same("skipped")
        ELSE IF snapshot.id # "dict" THEN same("error")
        ELSE IF snapshot.c = "absent" THEN same("skipped")
        ELSE IF snapshot.c # "int64" THEN same("error")
        ELSE IF snapshot.ds = "absent" THEN same("skipped")
        ELSE IF snapshot.ds # "data" THEN same("error")
        ELSE LET st == JustPairLoop(snapshot.data, 0, snapshot.chunk, Origin(snapshot.chunk),
                                    [local |-> <<0, 0, 0>>, state |-> voxelMap, writes |-> <<>>])
             IN  [state |-> st.state, writes |-> st.writes, outcome |-> "processed"]

\* an order of the tuples that compares the color first
TupleLessByColorFirst(a, b) ==
    IF a[4] # b[4] THEN a[4] < b[4]
    ELSE IF a[1] # b[1] THEN a[1] < b[1]
    ELSE IF a[2] # b[2] THEN a[2] < b[2]
    ELSE a[3] < b[3]

\* operator< of std::tuple<int, int, int, uint8_t>
TupleLess(a, b) ==
    IF a[1] # b[1] THEN a[1] < b[1]
    ELSE IF a[2] # b[2] THEN a[2] < b[2]
    ELSE IF a[3] # b[3] THEN a[3] < b[3]
    ELSE a[4] < b[4]

\* std::sort(visible.begin(), visible.end()): entries the order leaves unordered are equal
RECURSIVE TupleSorted(_, _)
TupleSorted(voxelMap, keys) ==
    IF keys = {} THEN <<>>
    ELSE LET line(k) == <<k[2][1], k[2][2], k[2][3], voxelMap[k[1]][k[2]]>>
             k == CHOOSE m \in keys : \A j \in keys : ~TupleLess(line(j), line(m))
         IN  <<line(k)>> \o TupleSorted(voxelMap, keys \ {k})

JustStep ==
    /\ entry = "justPrint"
    /\ pc = "loop"
    /\ snapshotIndex < MaxSnapshots
    /\ \E snapshot \in Snapshots :
          LET r == JustIteration(finalVoxelState, snapshot)
          IN  /\ cur' = snapshot
              /\ finalVoxelState' = r.state
              /\ writes' = r.writes
              /\ outcome' = r.outcome
    /\ snapshotIndex' = snapshotIndex + 1
    /\ UNCHANGED <<entry, root, pc, visibleVoxels, worldModel, result, mortonVars, decodeVars, unitVars>>

JustPrint ==
    /\ entry = "justPrint"
    /\ pc = "loop"
    /\ visibleVoxels' = TupleSorted(finalVoxelState, Visible(finalVoxelState))
    /\ pc' = "done"
    /\ result' = "void"
    /\ UNCHANGED <<entry, root, snapshotIndex, cur, outcome, finalVoxelState, writes, worldModel,
                   mortonVars, decodeVars, unitVars>>

-----------------------------------------------------------------------------
(* parsePlistVoxelData: the snapshot loop and its world model.              *)
(* A key "i_chunkId_chunkIndex" of the world model is the tuple             *)
(* <<i, chunkId, chunkIndex>>, a key "i_chunkIndex" the tuple               *)
(* <<i, chunkIndex>>: the decimal numbers hold no '_', so the strings are   *)
(* equal exactly when the tuples are.                                       *)

\* the string chunkId: "unknown", a string that spells a number, or other text
Unknown == [kind |-> "unknown", val |-> 0]
Spelled(n) == [kind |-> "number", val |-> n]

\* the (position, color) pairs of the stream, as Voxel(position, color)
RECURSIVE NewVoxels(_, _)
NewVoxels(voxelData, j) ==
    IF ~(j < Len(voxelData)) THEN <<>>
    ELSE IF j + 1 < Len(voxelData)
         THEN <<<<voxelData[j + 1], voxelData[j + 2]>>>> \o NewVoxels(voxelData, j + 2)
         ELSE NewVoxels(voxelData, j + 2)

\* the key under which the voxels of snapshot i are stored for chunkIndex
ChunkKey(i, foundChunkID, chunkId, chunkIndex) ==
    IF foundChunkID THEN <<i, chunkId.val, chunkIndex>> ELSE <<i, chunkIndex>>

\* the loop over modifiedChunks: worldModel[chunkKey].voxels = newVoxels
StoreChunks(model, i, foundChunkID, chunkId, modifiedChunks, voxelData) ==
    LET keys == {ChunkKey(i, foundChunkID, chunkId, chunkIndex) : chunkIndex \in modifiedChunks}
        indexOf(k) == k[Len(k)]
        coords(k) == IF k \in DOMAIN model /\ model[k].voxels # <<>>
                     THEN model[k].chunk
                     ELSE decodeMorton(indexOf(k))
    IN  [k \in DOMAIN model \cup keys |->
            IF k \in keys
            THEN [voxels |-> NewVoxels(voxelData, 0), chunk |-> coords(k)]
            ELSE model[k]]

ParseIteration(model, i, snapshot) ==
    LET same(how) == [model |-> model, outcome |-> how]
        fromTop == IF snapshot.topc = "string" THEN Spelled(snapshot.topval)
                   ELSE IF snapshot.topc = "text" THEN [kind |-> "text", val |-> 0]
                   ELSE Unknown
        foundChunkID == snapshot.id = "dict" /\ snapshot.c = "int64"
        chunkId == IF foundChunkID THEN Spelled(snapshot.chunk) ELSE fromTop
        modifiedChunks == snapshot.table
        voxelsInSnapshot == Len(snapshot.data) \div 2
    IN  IF snapshot.node # "dict" THEN same("error")
        ELSE IF snapshot.s = "absent" THEN same("skipped")
        ELSE IF snapshot.s # "dict" THEN same("error")
        ELSE IF snapshot.ds \notin {"absent", "data"} THEN same("error")
        ELSE IF chunkId.kind # "number" THEN same("error")       \* std::stoll throws
        ELSE IF snapshot.lc = "absent" \/ snapshot.ds = "absent" THEN same("skipped")
        ELSE IF snapshot.lc # "data" THEN same("error")
        ELSE IF voxelsInSnapshot = 0 \/ modifiedChunks = {} THEN same("skipped")
        ELSE [model |-> StoreChunks(model, i, foundChunkID, chunkId, modifiedChunks,
                                    snapshot.data),
              outcome |-> "processed"]

ParseStep ==
    /\ entry = "parse"
    /\ pc = "loop"
    /\ snapshotIndex < MaxSnapshots
    /\ \E snapshot \in ParseSnapshots :
          LET r == ParseIteration(worldModel, snapshotIndex, snapshot)
          IN  /\ cur' = snapshot
              /\ worldModel' = r.model
              /\ outcome' = r.outcome
    /\ snapshotIndex' = snapshotIndex + 1
    /\ UNCHANGED <<entry, root, pc, finalVoxelState, writes, visibleVoxels, result,
                   mortonVars, decodeVars, unitVars>>

\* a return that treats a world model without chunks as a failure
ParseReturnFailingWhenEmpty ==
    /\ entry = "parse"
    /\ pc = "loop"
    /\ pc' = "done"
    /\ result' = IF worldModel = EmptyMap THEN "false" ELSE "true"
    /\ UNCHANGED <<entry, root, snapshotIndex, cur, outcome, finalVoxelState, writes,
                   visibleVoxels, worldModel, mortonVars, decodeVars, unitVars>>

ParseReturn ==
    /\ entry = "parse"
    /\ pc = "loop"
    /\ pc' = "done"
    /\ result' = "true"
    /\ UNCHANGED <<entry, root, snapshotIndex, cur, outcome, finalVoxelState, writes,
                   visibleVoxels, worldModel, mortonVars, decodeVars, unitVars>>

-----------------------------------------------------------------------------
(* decodeVoxels2 *)

\* bits 0, 3, 6, ... of n, packed
RECURSIVE compactFrom(_, _)
compactFrom(n, k) ==
    IF k >= ChunkIDBits \div 3 THEN 0
    ELSE Bit(n, 3 * k) * 2 ^ k + compactFrom(n, k + 1)

compactBits(n) == compactFrom(n, 0)

decodeMorton3DOptimized(morton) ==
    <<compactBits(morton), compactBits(morton \div 2), compactBits(morton \div 4)>>

\* what a read of dsData[i], dsData[i + 1] past the end of the buffer can lead
\* to; reads is the number of leading bytes of the buffer's storage the call
\* has read from (one more than the highest index read)
GarbageVoxel == [x |-> 0, y |-> 0, z |-> 0, color |-> 255]
OutOfBounds(acc, i) ==
    {[status |-> "crash", voxels |-> <<>>, reads |-> i + 2],
     [status |-> "returned", voxels |-> acc, reads |-> i + 2],
     [status |-> "returned", voxels |-> Append(acc, GarbageVoxel), reads |-> i + 2]}

\* i < dsData.size() - 1, in size_t: size() - 1 is SIZE_MAX for the empty buffer
BelowLast(i, size) == IF size = 0 THEN TRUE ELSE i < size - 1

\* a loop that advances the traversal index only when it emits a voxel
RECURSIVE Voxels2LoopCountingVoxels(_, _, _, _)
Voxels2LoopCountingVoxels(data, i, offset, acc) ==
    IF ~BelowLast(i, Len(data)) THEN {[status |-> "returned", voxels |-> acc, reads |-> i]}
    ELSE IF i + 2 > Len(data) THEN OutOfBounds(acc, i)
    ELSE LET color == data[i + 2]
             d == decodeMorton3DOptimized(Len(acc) + offset)
         IN  Voxels2LoopCountingVoxels(data, i + 2, offset,
                 IF color # 0
                 THEN Append(acc, [x |-> d[1], y |-> d[2], z |-> d[3], color |-> color])
                 ELSE acc)

RECURSIVE Voxels2Loop(_, _, _, _)
Voxels2Loop(data, i, offset, acc) ==
    IF ~BelowLast(i, Len(data)) THEN {[status |-> "returned", voxels |-> acc, reads |-> i]}
    ELSE IF i + 2 > Len(data) THEN OutOfBounds(acc, i)      \* dsData[i], dsData[i + 1]
    ELSE LET color == data[i + 2]
             d == decodeMorton3DOptimized(i \div 2 + offset)
         IN  Voxels2Loop(data, i + 2, offset,
                 IF color # 0
                 THEN Append(acc, [x |-> d[1], y |-> d[2], z |-> d[3], color |-> color])
                 ELSE acc)

decodeVoxels2(data, offset) == Voxels2Loop(data, 0, offset, <<>>)

\* buffers of up to MaxPairs + 1 pairs, with and without a trailing odd byte
Buffers == LET even == StreamsOf(MaxPairs + 1) IN even \cup {d \o <<7>> : d \in even}
Offsets == {0, 1, 32767}
NotCalled == [status |-> "none", voxels |-> <<>>, reads |-> 0]

CallDecodeVoxels2 ==
    /\ voxels.status = "none"
    /\ voxels' \in decodeVoxels2(dsData, mortonOffset)
    /\ UNCHANGED <<dsData, mortonOffset, driverVars, mortonVars, unitVars>>

-----------------------------------------------------------------------------
(* The pair loop of the drivers, one pair of a stream at a time: the        *)
(* position counter (localX, localY, localZ), which a stream of any length  *)
(* drives through the chunk.                                                *)

\* position bytes: sequential, and jumps to (2, 1, 1) and to (7, 7, 3)
PositionBytes == {0, 14, 255}

PairIdle ==
    counter = <<0, 0, 0>> /\ run = 0 /\ positionByte = 0 /\ written = <<0, 0, 0>>

\* one iteration of the pair loop; the color byte does not reach the counter
ProcessPair ==
    \E p \in PositionBytes :
        LET target == IF p # 0 THEN decodeMorton(p) ELSE counter
        IN  /\ (p = 0 /\ run >= 0) => run < MaxRun
            /\ positionByte' = p
            /\ written' = target
            /\ counter' = IF p = 0 THEN Advance(target) ELSE target
            /\ run' = IF p = 0 /\ run >= 0 THEN run + 1 ELSE 0 - 1
            /\ UNCHANGED <<driverVars, mortonVars, decodeVars, lzfseVars, gridVars>>

-----------------------------------------------------------------------------
(* decompressLzfseToPlist: the retry loop around lzfse_decode_buffer *)

\* lzfse_decode_buffer on a destination of dst_size bytes: the bytes written;
\* dst_size when the output does not fit; 0 when the input is not a stream
lzfse_decode_buffer(dst_size, payload) ==
    IF payload < 0 THEN 0
    ELSE IF payload <= dst_size THEN payload
    ELSE dst_size

LzfseIdle ==
    /\ inSize = 0 /\ content = 0 - 1 /\ outAllocatedSize = 0 /\ decodedSize = 0
    /\ retries = 0 /\ lzfsePc = "true"

\* an iteration that takes the 'continue': the buffer is doubled; resize throws
\* when the new size cannot be allocated
DecodeRetry ==
    /\ lzfsePc = "decode"
    /\ LET d == lzfse_decode_buffer(outAllocatedSize, content)
       IN  /\ d = 0 \/ d = outAllocatedSize
           /\ decodedSize' = d
    /\ outAllocatedSize' = outAllocatedSize * 2
    /\ retries' = (retries + 1) % 2
    /\ lzfsePc' = IF outAllocatedSize * 2 > MaxAlloc THEN "thrown" ELSE "decode"
    /\ UNCHANGED <<inSize, content, driverVars, mortonVars, decodeVars, pairVars, gridVars>>

\* the iteration that takes the 'break'
DecodeBreak ==
    /\ lzfsePc = "decode"
    /\ LET d == lzfse_decode_buffer(outAllocatedSize, content)
       IN  /\ ~(d = 0 \/ d = outAllocatedSize)
           /\ decodedSize' = d
    /\ lzfsePc' = "write"
    /\ UNCHANGED <<inSize, content, outAllocatedSize, retries, driverVars, mortonVars,
                   decodeVars, pairVars, gridVars>>

\* after the loop: the output file opens or does not
WriteOutput ==
    /\ lzfsePc = "write"
    /\ lzfsePc' \in {"true", "false"}
    /\ UNCHANGED <<inSize, content, outAllocatedSize, decodedSize, retries, driverVars,
                   mortonVars, decodeVars, pairVars, gridVars>>

-----------------------------------------------------------------------------
(* convert_voxelsoftype_to_ogt_vox: the dense grid of a list of voxels.     *)
(* voxel_data is modelled by the set of the indices that hold 1; memset     *)
(* leaves every other cell of 0 .. voxel_count - 1 at 0.                    *)

GridLimit == 256        \* the dimension the sizes are clamped to

\* coordinates of a VmaxVoxel (x, y, z): 8-bit values, near 0 and at the top
GridCoords == {0, 2, 255}
GridVoxels == {<<x, y, z>> : x \in GridCoords, y \in GridCoords, z \in GridCoords}

RECURSIVE ListsOf(_)
ListsOf(n) ==
    IF n = 0 THEN {<<>>}
    ELSE LET shorter == ListsOf(n - 1)
         IN  shorter \cup {Append(l, v) : l \in {k \in shorter : Len(k) = n - 1}, v \in GridVoxels}

VoxelLists == ListsOf(MaxVoxels)

Larger(a, b) == IF a > b THEN a ELSE b
Smaller(a, b) == IF a < b THEN a ELSE b

\* the first loop: size = max(size, coordinate + 1) on every axis
RECURSIVE SizeLoop(_, _, _)
SizeLoop(list, i, dims) ==
    IF i > Len(list) THEN dims
    ELSE SizeLoop(list, i + 1, [a \in 1 .. 3 |-> Larger(dims[a], list[i][a] + 1)])

\* the two safety checks: clamp to 256, then to at least 1
SafeSizes(dims) ==
    LET clamped == IF \E a \in 1 .. 3 : dims[a] > GridLimit
                   THEN [a \in 1 .. 3 |-> Smaller(dims[a], GridLimit)]
                   ELSE dims
    IN  IF \E a \in 1 .. 3 : clamped[a] = 0
        THEN [a \in 1 .. 3 |-> Larger(clamped[a], 1)]
        ELSE clamped

\* a cell index with the rows laid out by size_y
CellIndexByRowsOfSizeY(xyz, dims) ==
    xyz[1] + (xyz[2] * dims[2]) + (xyz[3] * dims[1] * dims[2])

\* index = x + (y * size_x) + (z * size_x * size_y)
CellIndex(xyz, dims) ==
    xyz[1] + (xyz[2] * dims[1]) + (xyz[3] * dims[1] * dims[2])

\* the second loop: voxels outside the sizes are skipped, the others set their cell
RECURSIVE FillLoop(_, _, _, _)
FillLoop(list, i, dims, acc) ==
    IF i > Len(list) THEN acc
    ELSE IF \E a \in 1 .. 3 : list[i][a] >= dims[a] THEN FillLoop(list, i + 1, dims, acc)
    ELSE LET index == CellIndex(list[i], dims)
         IN  IF index < dims[1] * dims[2] * dims[3]
             THEN FillLoop(list, i + 1, dims,
                           [cells |-> acc.cells \cup {index}, populated |-> acc.populated + 1])
             ELSE FillLoop(list, i + 1, dims, acc)

\* the outcomes of a call: the model, or nullptr when ogt_vox_malloc fails
convert_voxelsoftype_to_ogt_vox(list) ==
    LET dims == SafeSizes(SizeLoop(list, 1, <<0, 0, 0>>))
        filled == FillLoop(list, 1, dims, [cells |-> {}, populated |-> 0])
    IN  {[status |-> "model", size_x |-> dims[1], size_y |-> dims[2], size_z |-> dims[3],
          voxel_count |-> dims[1] * dims[2] * dims[3], cells |-> filled.cells,
          populated |-> filled.populated],
         [status |-> "nullptr", size_x |-> 0, size_y |-> 0, size_z |-> 0,
          voxel_count |-> 0, cells |-> {}, populated |-> 0]}

NotConverted ==
    [status |-> "none", size_x |-> 0, size_y |-> 0, size_z |-> 0,
     voxel_count |-> 0, cells |-> {}, populated |-> 0]

GridIdle == voxelsOfType = <<>> /\ ogtModel = NotConverted

ConvertVoxels ==
    /\ ogtModel.status = "none"
    /\ ogtModel' \in convert_voxelsoftype_to_ogt_vox(voxelsOfType)
    /\ UNCHANGED <<voxelsOfType, driverVars, mortonVars, decodeVars, pairVars, lzfseVars>>

-----------------------------------------------------------------------------
(* The entry points up to the snapshot loop: rootDict and snapshotsArray *)

RootTags == {"absent", "array", "other"}

\* the entry point leaves at once, ending as how; nothing else changes
Leave(how) ==
    /\ pc' = "done"
    /\ result' = how
    /\ UNCHANGED <<entry, root, snapshotIndex, cur, outcome, finalVoxelState, writes,
                   visibleVoxels, worldModel, mortonVars, decodeVars, unitVars>>

\* the entry point holds snapshotsArray and reaches the snapshot loop
Enter ==
    /\ pc' = "loop"
    /\ UNCHANGED <<entry, root, snapshotIndex, cur, outcome, finalVoxelState, writes,
                   visibleVoxels, worldModel, result, mortonVars, decodeVars, unitVars>>

\* find("snapshots") is checked; the any_cast to array_type is outside any try
SimpleOpen ==
    /\ entry = "printSimple" /\ pc = "open"
    /\ IF root = "absent" THEN Leave("error")
       ELSE IF root # "array" THEN Leave("uncaught")
       ELSE Enter

AllOpen ==
    /\ entry = "printAll" /\ pc = "open"
    /\ IF root = "absent" THEN Leave("error")
       ELSE IF root # "array" THEN Leave("uncaught")
       ELSE Enter

\* rootDict.at("snapshots") throws std::out_of_range when the key is absent,
\* the any_cast throws boost::bad_any_cast; neither is inside a try
JustOpen ==
    /\ entry = "justPrint" /\ pc = "open"
    /\ IF root # "array" THEN Leave("uncaught") ELSE Enter

\* both the missing key and the failed cast print a message and return false
ParseOpen ==
    /\ entry = "parse" /\ pc = "open"
    /\ IF root # "array" THEN Leave("false") ELSE Enter

-----------------------------------------------------------------------------
(* Specifications *)

Entries == {"printSimple", "printAll", "justPrint", "parse"}

DriverIdle ==
    /\ root = "array"
    /\ pc = "loop"
    /\ snapshotIndex = 0
    /\ cur = Sound
    /\ outcome = "none"
    /\ finalVoxelState = EmptyMap
    /\ writes = <<>>
    /\ visibleVoxels = <<>>
    /\ worldModel = EmptyMap
    /\ result = "none"

MortonIdle == mIn = [kind |-> "code", code |-> 0, point |-> <<0, 0, 0>>] /\ mOut = NoResult
DecodeIdle == dsData = <<>> /\ mortonOffset = 0 /\ voxels = NotCalled
UnitIdle == PairIdle /\ LzfseIdle /\ GridIdle

\* DL_main dispatches to one entry point, which walks the 'snapshots' array
Init ==
    /\ entry \in Entries
    /\ root \in RootTags
    /\ pc = "open"
    /\ snapshotIndex = 0
    /\ cur = Sound
    /\ outcome = "none"
    /\ finalVoxelState = EmptyMap
    /\ writes = <<>>
    /\ visibleVoxels = <<>>
    /\ worldModel = EmptyMap
    /\ result = "none"
    /\ MortonIdle /\ DecodeIdle /\ UnitIdle

Next ==
    \/ SimpleOpen \/ SimpleStep \/ SimplePrint
    \/ AllOpen \/ AllStep \/ AllPrint
    \/ JustOpen \/ JustStep \/ JustPrint
    \/ ParseOpen \/ ParseStep \/ ParseReturn

Spec == Init /\ [][Next]_vars

\* the chunk-ID codec on bounded inputs
InitMorton ==
    /\ entry = "morton" /\ DriverIdle /\ DecodeIdle /\ UnitIdle
    /\ mIn \in MortonInputs
    /\ mOut = NoResult

NextMorton == DecodeChunkID \/ DecodeEncoded \/ DecodeByte \/ DecodeEncodedByte

SpecMorton == InitMorton /\ [][NextMorton]_vars

\* decodeVoxels2 on bounded buffers
InitDecode ==
    /\ entry = "decodeVoxels2" /\ DriverIdle /\ MortonIdle /\ UnitIdle
    /\ dsData \in Buffers
    /\ mortonOffset \in Offsets
    /\ voxels = NotCalled

NextDecode == CallDecodeVoxels2

SpecDecode == InitDecode /\ [][NextDecode]_vars

\* the pair loop on streams of any length: 'int localX = 0, localY = 0,
\* localZ = 0' before the first pair
InitPairs == entry = "pairs" /\ DriverIdle /\ MortonIdle /\ DecodeIdle /\ UnitIdle

NextPairs == ProcessPair

SpecPairs == InitPairs /\ [][NextPairs]_vars

\* decompressLzfseToPlist from the point where the input file has been read;
\* an input that decodes to something is not empty
InitDecompress ==
    /\ entry = "decompress" /\ DriverIdle /\ MortonIdle /\ DecodeIdle /\ PairIdle /\ GridIdle
    /\ inSize \in 0 .. MaxInSize
    /\ content \in (0 - 1) .. MaxContent
    /\ content >= 0 => inSize > 0
    /\ outAllocatedSize = inSize * 4
    /\ decodedSize = 0
    /\ retries = 0
    /\ lzfsePc = "decode"

NextDecompress == DecodeRetry \/ DecodeBreak \/ WriteOutput

\* the function runs on: a step that can be taken is taken
SpecDecompress == InitDecompress /\ [][NextDecompress]_vars /\ WF_vars(NextDecompress)

\* convert_voxelsoftype_to_ogt_vox on bounded lists of voxels
InitGrid ==
    /\ entry = "convert" /\ DriverIdle /\ MortonIdle /\ DecodeIdle /\ PairIdle /\ LzfseIdle
    /\ voxelsOfType \in VoxelLists
    /\ ogtModel = NotConverted

NextGrid == ConvertVoxels

SpecGrid == InitGrid /\ [][NextGrid]_vars

-----------------------------------------------------------------------------
(* Properties *)

IsDriver == entry \in {"printSimple", "printAll", "justPrint"}

\* the visible voxels (position, color) recorded for a chunk ID
StateContent(chunkID) ==
    IF chunkID \notin DOMAIN finalVoxelState THEN {}
    ELSE {<<p, finalVoxelState[chunkID][p]>> :
             p \in {q \in DOMAIN finalVoxelState[chunkID] : finalVoxelState[chunkID][q] # 0}}

\* the visible voxels of the snapshot processed last, taken by itself: for
\* every position it stores to, the color of its last store there
LastContent ==
    LET last == {i \in DOMAIN writes :
                    \A j \in DOMAIN writes : writes[j].world = writes[i].world => j <= i}
    IN  {<<writes[i].world, writes[i].color>> : i \in {j \in last : writes[j].color # 0}}

(* C1: after a driver has processed a snapshot, the state recorded for the  *)
(* snapshot's chunk ID is exactly the voxels of that snapshot: nothing that *)
(* only an earlier snapshot of the same chunk ID stored is left.            *)
LastWriteWinsPerChunk ==
    (IsDriver /\ outcome = "processed") => StateContent(cur.chunk) = LastContent

(* C2: the world model of parsePlistVoxelData holds at most one entry per   *)
(* chunk ID (the chunk ID is the second part of a key i_chunkId_chunkIndex) *)
OneEntryPerChunkID ==
    \A k1, k2 \in DOMAIN worldModel :
        (Len(k1) = 3 /\ Len(k2) = 3 /\ k1[2] = k2[2]) => k1 = k2

(* C3: decodeMortonChunkID is a bijection between the codes 0 .. 2^24 - 1   *)
(* and the triples with every axis in 0 .. 255, and the inverse of the      *)
(* interleave: encode(decode(c)) = c and decode(encode(x, y, z)) = (x, y, z)*)
MortonBijection ==
    mOut.done =>
        /\ \A a \in 1 .. 3 : mOut.xyz[a] \in 0 .. 255
        /\ (mIn.kind = "code" /\ mIn.code \in 0 .. 2 ^ ChunkIDBits - 1)
               => MortonEncode(mOut.xyz) = mIn.code
        /\ mIn.kind = "point" => mOut.xyz = mIn.point

MortonBijectionWitness ==
    /\ mOut.done /\ mIn.kind = "code" /\ mIn.code = 2 ^ 23 + 2
    /\ mOut.xyz = <<0, 1, 128>>

(* C4: every store of a driver goes to the world position                   *)
(* decodeMortonChunkID(chunkID) * 32 + (lx, ly, lz), component-wise, where  *)
(* (lx, ly, lz) in [0, 31]^3 is the local coordinate of the pair.           *)
CoordinateComposition ==
    IsDriver =>
        \A i \in DOMAIN writes :
            LET w == writes[i]
                chunk == decodeMortonChunkID(w.chunkID)
            IN  /\ \A a \in 1 .. 3 : w.local[a] \in 0 .. 31
                /\ \A a \in 1 .. 3 : w.world[a] = chunk[a] * 32 + w.local[a]
                /\ w.world \in DOMAIN finalVoxelState[w.chunkID]

CoordinateCompositionWitness ==
    /\ IsDriver
    /\ \E i \in DOMAIN writes :
          /\ writes[i].chunkID = 7
          /\ writes[i].local = <<2, 1, 1>>
          /\ writes[i].world = <<34, 33, 33>>

\* the pairs of the buffer with a non-zero color byte, in order, each with
\* the traversal index mortonOffset + k / 2 of its byte offset k
ColoredPairs ==
    LET pairs == [n \in 1 .. Len(dsData) \div 2 |->
                     [index |-> mortonOffset + (n - 1), color |-> dsData[2 * n]]]
        colored(p) == p.color # 0
    IN  SelectSeq(pairs, colored)

(* C5: decodeVoxels2 emits, for the pairs of the buffer in order, one voxel *)
(* per pair with a non-zero color byte, with that color and the coordinates *)
(* whose Morton code is mortonOffset + k / 2, and nothing for a pair with   *)
(* color byte 0.                                                            *)
StreamPositionIsMortonIndex ==
    (voxels.status # "none" /\ dsData # <<>>) =>
        /\ voxels.status = "returned"
        /\ Len(voxels.voxels) = Len(ColoredPairs)
        /\ \A n \in DOMAIN voxels.voxels :
              LET v == voxels.voxels[n]
              IN  /\ v.color = ColoredPairs[n].color
                  /\ MortonEncode(<<v.x, v.y, v.z>>) = ColoredPairs[n].index

StreamPositionIsMortonIndexWitness ==
    /\ dsData = <<0, 0, 0, 38>> /\ mortonOffset = 1
    /\ voxels.status = "returned"
    /\ voxels.voxels = <<[x |-> 0, y |-> 1, z |-> 0, color |-> 38]>>

(* C6: a buffer of any length that holds only (0, 0) pairs makes            *)
(* decodeVoxels2 return no voxel.                                           *)
AbsenceSemantics ==
    (voxels.status # "none" /\ Len(dsData) % 2 = 0
        /\ \A k \in DOMAIN dsData : dsData[k] = 0)
    => (voxels.status = "returned" /\ voxels.voxels = <<>>)

(* C7: every line the drivers print carries the palette index               *)
(* storedColor - 1 of a stored color byte that is not 0.                    *)
ColorOffset ==
    (IsDriver /\ pc = "done") =>
        \A n \in DOMAIN visibleVoxels :
            LET line == visibleVoxels[n]
                pos == <<line[1], line[2], line[3]>>
            IN  \E c \in DOMAIN finalVoxelState :
                    /\ pos \in DOMAIN finalVoxelState[c]
                    /\ finalVoxelState[c][pos] # 0
                    /\ line[4] = finalVoxelState[c][pos] - 1

(* C8: the document with the single checkpoint snapshot of chunk ID 0 and   *)
(* stream [0x00, 0x26, 0x00, 0x00] yields exactly one voxel, at (0, 0, 0),  *)
(* with palette color 37.                                                   *)
EndToEnd ==
    (entry = "printSimple" /\ pc = "done" /\ snapshotIndex = 1
        /\ cur = Snap(0, 4, <<0, 38, 0, 0>>))
    => visibleVoxels = << <<0, 0, 0, 37>> >>

(* C9: a snapshot of type selection (5), undo (2) or redo (3) stores        *)
(* nothing into the final state of the drivers.                             *)
HistoryContributesNothing ==
    (IsDriver /\ snapshotIndex > 0 /\ cur.t \in {2, 3, 5}) => writes = <<>>

\* the snapshot lacks s, s.id, s.id.c or s.ds, or holds another type there
Malformed(snapshot) ==
    \/ snapshot.s # "dict" \/ snapshot.id # "dict"
    \/ snapshot.c # "int64" \/ snapshot.ds # "data"

(* C10: an iteration of a driver on a snapshot that lacks 's', 'id', 'c' or *)
(* 'ds', or holds a value of the wrong type there, leaves the accumulated   *)
(* voxel state as it was and the loop goes on with the next snapshot.       *)
PerRecordSkip ==
    [][(IsDriver /\ snapshotIndex' = snapshotIndex + 1 /\ Malformed(cur'))
          => (/\ finalVoxelState' = finalVoxelState
              /\ writes' = <<>>
              /\ outcome' \in {"skipped", "error"}
              /\ pc' = "loop")]_vars

PerRecordSkipWitness ==
    /\ IsDriver /\ snapshotIndex = 2
    /\ cur.c = "other" /\ outcome = "error"
    /\ StateContent(7) = {<<<<34, 33, 33>>, 1>>}

(* C11: when the 'snapshots' key is absent or does not hold an array, every *)
(* entry point ends by returning after an error message (false from         *)
(* parsePlistVoxelData), never by an exception leaving it, and no snapshot  *)
(* is processed.                                                            *)
DecodeFailureReported ==
    (root # "array" /\ pc = "done")
        => (result \in {"false", "error"} /\ snapshotIndex = 0 /\ outcome = "none")

(* C12: once parsePlistVoxelData holds the 'snapshots' array, it ends only  *)
(* by returning true, whatever the snapshots are: no iteration of the loop  *)
(* ends the function, and the return after the loop is true also for the    *)
(* empty list, for snapshots that all fail and for a model without voxels.  *)
ParseReturnsTrue ==
    (entry = "parse" /\ root = "array") =>
        /\ pc = "done" => result = "true"
        /\ pc # "done" => result = "none"

ParseReturnsTrueWitness ==
    /\ entry = "parse" /\ root = "array" /\ pc = "done" /\ result = "true"
    /\ snapshotIndex = 2 /\ outcome = "error" /\ worldModel = EmptyMap

\* the pairs with a non-zero color byte whose traversal index lies inside the
\* 32 x 32 x 32 chunk
PairsInChunk ==
    LET inside(p) == p.index < ChunkSize * ChunkSize * ChunkSize
    IN  SelectSeq(ColoredPairs, inside)

(* C13: decodeVoxels2 returns no voxel for a pair whose traversal index     *)
(* mortonOffset + k / 2 is 32768 or more (the pair is dropped), and every   *)
(* voxel it returns has its three coordinates in [0, 31].                   *)
OutOfRangeDropped ==
    (voxels.status = "returned" /\ dsData # <<>>) =>
        /\ Len(voxels.voxels) = Len(PairsInChunk)
        /\ \A n \in DOMAIN voxels.voxels :
              LET v == voxels.voxels[n]
              IN  v.x \in 0 .. ChunkSize - 1 /\ v.y \in 0 .. ChunkSize - 1
                      /\ v.z \in 0 .. ChunkSize - 1

(* C14: decodeVoxels2 is total: for a buffer of any length n it returns,    *)
(* having read only indices below n; for the empty buffer it reads nothing  *)
(* and returns the empty sequence.                                          *)
DecodingIsTotal ==
    voxels.status # "none" =>
        /\ voxels.status = "returned"
        /\ voxels.reads <= Len(dsData)
        /\ dsData = <<>> => (voxels.reads = 0 /\ voxels.voxels = <<>>)

\* the buffer without its last byte
Truncated(data) == SubSeq(data, 1, Len(data) - 1)

(* C15: for a buffer of odd length 2m + 1, decodeVoxels2 produces exactly   *)
(* what it produces for the first 2m bytes, and it never reads the trailing *)
(* byte.                                                                    *)
OddLengthTruncation ==
    (voxels.status # "none" /\ Len(dsData) % 2 = 1) =>
        /\ voxels.reads < Len(dsData)
        /\ decodeVoxels2(Truncated(dsData), mortonOffset) = {voxels}

\* the index in ws of the last write to the world position of ws[i]
LastWriteTo(ws, i) ==
    CHOOSE j \in DOMAIN ws :
        /\ ws[j].world = ws[i].world
        /\ \A k \in DOMAIN ws : ws[k].world = ws[i].world => k <= j

\* the entries stored for a chunk ID
PositionsOf(state, chunkID) ==
    IF chunkID \in DOMAIN state THEN DOMAIN state[chunkID] ELSE {}

(* C16: after an iteration of a driver, every world position the iteration  *)
(* wrote holds the color of the last write to it, whatever it held before   *)
(* (from this snapshot or an earlier one), and the chunk's map holds one    *)
(* entry per position written and no entry that was not there or written.   *)
VoxelGranularityOverwrite ==
    [][(IsDriver /\ snapshotIndex' = snapshotIndex + 1 /\ outcome' = "processed")
          => /\ \A i \in DOMAIN writes' :
                   finalVoxelState'[cur'.chunk][writes'[i].world]
                       = writes'[LastWriteTo(writes', i)].color
             /\ PositionsOf(finalVoxelState', cur'.chunk)
                   = PositionsOf(finalVoxelState, cur'.chunk)
                         \cup {writes'[i].world : i \in DOMAIN writes'}]_vars

VoxelGranularityOverwriteWitness ==
    /\ IsDriver /\ outcome = "processed" /\ cur.data = <<14, 1, 14, 2>>
    /\ Len(writes) = 2 /\ writes[1].world = writes[2].world
    /\ writes[1].color = 1 /\ writes[2].color = 2
    /\ finalVoxelState[cur.chunk][writes[1].world] = 2
    /\ Cardinality(DOMAIN finalVoxelState[cur.chunk]) = 1

DecodersDifferOnSomeByte ==
    (mOut.done /\ mIn.kind = "byte") =>
        \E c \in Bytes : decodeMorton(c) # decodeMortonChunkID(c)

(* C19, amended: decodeMorton is a function of its own, yet on every code   *)
(* in 0 .. 255 it returns what decodeMortonChunkID returns: it is the       *)
(* 24-bit decode restricted to the low 8 bits.                              *)
DecodersAgreeOnBytes ==
    (mOut.done /\ mIn.kind = "byte") => mOut.xyz = decodeMortonChunkID(mIn.code)

DecodersAgreeOnBytesWitness ==
    /\ mOut.done /\ mIn.kind = "byte" /\ mIn.code = 255
    /\ mOut.xyz = <<7, 7, 3>> /\ decodeMortonChunkID(255) = <<7, 7, 3>>

(* C20: for every byte decodeMorton returns x in [0, 7], y in [0, 7] and    *)
(* z in [0, 3]; distinct bytes give distinct triples, and every triple of   *)
(* the 8 x 8 x 4 space is the decode of a byte.                             *)
ByteDecodeBijection ==
    mOut.done =>
        /\ mIn.kind = "byte" =>
              /\ mOut.xyz \in BytePoints
              /\ \A c \in Bytes : decodeMorton(c) = mOut.xyz => c = mIn.code
        /\ mIn.kind = "bytepoint" => mOut.xyz = mIn.point

ByteDecodeBijectionWitness ==
    /\ mOut.done /\ mIn.kind = "byte" /\ mIn.code = 128 /\ mOut.xyz = <<0, 4, 0>>

(* C21: for every chunk ID, negative ones and ones of 2^24 or more          *)
(* included, decodeMortonChunkID returns each axis in [0, 255], the result  *)
(* is the decode of the ID's low 24 bits, and the world origin derived from *)
(* it is a multiple of 32 in [0, 8160] on each axis.                        *)
LowBitsDecideChunk ==
    (mOut.done /\ mIn.kind = "code") =>
        /\ \A a \in 1 .. 3 : mOut.xyz[a] \in 0 .. 255
        /\ MortonEncode(mOut.xyz) = mIn.code % 2 ^ ChunkIDBits
        /\ \A a \in 1 .. 3 :
              /\ Origin(mIn.code)[a] = mOut.xyz[a] * 32
              /\ Origin(mIn.code)[a] \in 0 .. 8160
              /\ Origin(mIn.code)[a] % 32 = 0

LowBitsDecideChunkWitness ==
    /\ mOut.done /\ mIn.kind = "code" /\ mIn.code = 0 - 2 ^ 24 - 5
    /\ mOut.xyz = decodeMortonChunkID(2 ^ 24 - 5)
    /\ mOut.xyz = <<255, 255, 254>>

(* C22: the counter starts at (0, 0, 0); a pair with position byte 0 is     *)
(* written at the counter, which then advances x first, carrying into y at  *)
(* 32 and into z at 32, z wrapping to 0 at 32, so that in a stream of only  *)
(* zero position bytes pair n (from 0) is written at (n mod 32,             *)
(* (n div 32) mod 32, (n div 1024) mod 32); a pair with a non-zero position *)
(* byte sets the counter to decodeMorton(position) and is written there.    *)
HybridPositionDecode ==
    /\ run = 0 => counter = <<0, 0, 0>>
    /\ run > 0 =>
          LET n == run - 1
          IN  /\ positionByte = 0
              /\ written = <<n % 32, (n \div 32) % 32, (n \div 1024) % 32>>
              /\ counter = <<run % 32, (run \div 32) % 32, (run \div 1024) % 32>>
    /\ (run < 0 /\ positionByte # 0) =>
          (written = decodeMorton(positionByte) /\ counter = written)
    /\ (run < 0 /\ positionByte = 0) =>
          counter = IF written[1] < 31 THEN <<written[1] + 1, written[2], written[3]>>
                  ELSE IF written[2] < 31 THEN <<0, written[2] + 1, written[3]>>
                  ELSE <<0, 0, (written[3] + 1) % 32>>

HybridPositionDecodeWitness ==
    run = 32769 /\ written = <<0, 0, 0>> /\ counter = <<1, 0, 0>> /\ positionByte = 0

\* worldX, worldY, worldZ of a local coordinate, given the chunk's world origin
World(worldOrigin, xyz) ==
    <<worldOrigin[1] + xyz[1], worldOrigin[2] + xyz[2], worldOrigin[3] + xyz[3]>>

(* C23: after every pair the counter has 0 <= localX, localY, localZ <= 31, *)
(* and so has the coordinate the pair was written at; the world position    *)
(* written for a chunk lies in the chunk's own box: floor(world / 32) is    *)
(* the chunk coordinate and world mod 32 the local coordinate.              *)
CounterStaysInChunk ==
    /\ \A a \in 1 .. 3 : counter[a] \in 0 .. 31 /\ written[a] \in 0 .. 31
    /\ \A c \in {7, 73} :
          LET chunk == decodeMortonChunkID(c)
              world == World(Origin(c), written)
          IN  \A a \in 1 .. 3 :
                  world[a] \div 32 = chunk[a] /\ world[a] % 32 = written[a]

CounterStaysInChunkWitness ==
    /\ run < 0 /\ positionByte = 0
    /\ written = <<31, 31, 31>> /\ counter = <<0, 0, 0>>
    /\ World(Origin(7), written) = <<63, 63, 63>>

(* C24: a pair with a non-zero position byte does not advance the counter:  *)
(* when a pair (p, c1), p # 0, is directly followed by a pair (0, c2), both *)
(* are written at decodeMorton(p) and the color stored there is the later   *)
(* one; a zero-position pair after these two is written at the next cell.   *)
JumpDoesNotAdvance ==
    (IsDriver /\ outcome = "processed") =>
        \A i \in DOMAIN writes :
            (i + 1 \in DOMAIN writes /\ writes[i].position # 0 /\ writes[i + 1].position = 0)
            => /\ writes[i].local = decodeMorton(writes[i].position)
               /\ writes[i + 1].local = writes[i].local
               /\ writes[i + 1].world = writes[i].world
               /\ LastWriteTo(writes, i) >= i + 1
               /\ finalVoxelState[cur.chunk][writes[i].world]
                      = writes[LastWriteTo(writes, i)].color
               /\ (i + 2 \in DOMAIN writes /\ writes[i + 2].position = 0)
                      => writes[i + 2].local
                             = <<writes[i].local[1] + 1, writes[i].local[2], writes[i].local[3]>>

JumpDoesNotAdvanceWitness ==
    /\ IsDriver /\ outcome = "processed" /\ cur.data = <<14, 1, 0, 38, 0, 5>>
    /\ Len(writes) = 3
    /\ writes[1].local = <<2, 1, 1>> /\ writes[2].local = <<2, 1, 1>>
    /\ writes[3].local = <<3, 1, 1>>
    /\ finalVoxelState[cur.chunk][writes[1].world] = 38

\* the snapshot has all the drivers read: its chunk ID and its stream
HasChunkID(snapshot) == snapshot.node = "dict" /\ ~Malformed(snapshot)

\* the snapshots the one just processed is swapped with: of every chunk ID,
\* storing a voxel, erasing one, and jumping
Neighbours == {Snap(c, 4, d) : c \in ChunkIDs, d \in {<<0, 38>>, <<0, 0>>, <<14, 1>>}}

(* C25: in printSimpleVoxelCoordinates two adjacent snapshots with          *)
(* different chunk IDs commute: processing the snapshot just processed      *)
(* after, instead of before, a snapshot of another chunk ID gives the       *)
(* same voxel state, and so the same visible voxels.                        *)
DifferentChunksCommute ==
    [][(entry = "printSimple" /\ snapshotIndex' = snapshotIndex + 1 /\ HasChunkID(cur'))
          => \A other \in Neighbours :
                 other.chunk # cur'.chunk
                 => \A thenOther \in {SimpleIteration(finalVoxelState', other).state},
                       otherFirst \in {SimpleIteration(finalVoxelState, other).state} :
                        \A swapped \in {SimpleIteration(otherFirst, cur').state} :
                            swapped = thenOther /\ Visible(swapped) = Visible(thenOther)]_vars

DifferentChunksCommuteWitness ==
    /\ entry = "printSimple" /\ snapshotIndex = 2 /\ outcome = "processed"
    /\ cur.chunk = 7 /\ DOMAIN finalVoxelState = {0, 7}
    /\ StateContent(0) # {} /\ StateContent(7) # {}

(* C26: reprocessing is idempotent in printSimpleVoxelCoordinates:          *)
(* processing the snapshot just processed once more, immediately after      *)
(* itself, leaves the voxel state as it is.                                 *)
ReprocessingIsIdempotent ==
    [][(entry = "printSimple" /\ snapshotIndex' = snapshotIndex + 1)
          => SimpleIteration(finalVoxelState', cur').state = finalVoxelState']_vars

ReprocessingIsIdempotentWitness ==
    /\ entry = "printSimple" /\ snapshotIndex = 2 /\ outcome = "processed"
    /\ Len(cur.data) >= 4 /\ cur.chunk = 0
    /\ \E p \in DOMAIN finalVoxelState[0] : finalVoxelState[0][p] = 0
    /\ \E p \in DOMAIN finalVoxelState[0] : finalVoxelState[0][p] # 0

(* C27: the visible voxels printSimpleVoxelCoordinates and                  *)
(* justPrintVoxelCoordinates print hold every world position (x, y, z) at   *)
(* most once, whatever the 64-bit chunk IDs of the snapshots are.           *)
WorldPositionsPrintedOnce ==
    (entry \in {"printSimple", "justPrint"} /\ pc = "done" /\ result = "void")
        => \A i, j \in DOMAIN visibleVoxels :
               (visibleVoxels[i][1] = visibleVoxels[j][1]
                    /\ visibleVoxels[i][2] = visibleVoxels[j][2]
                    /\ visibleVoxels[i][3] = visibleVoxels[j][3]) => i = j

(* C28: decompressLzfseToPlist terminates for every input: its retry loop   *)
(* is left at some point, with 0 < decodedSize < outAllocatedSize, also     *)
(* when the input is empty or is not an LZFSE stream.                       *)
DecompressLoopExits ==
    <>(lzfsePc \in {"write", "true", "false"}
          /\ 0 < decodedSize /\ decodedSize < outAllocatedSize)

XYZNotAfter(a, b) ==
    \/ a[1] < b[1]
    \/ a[1] = b[1] /\ a[2] < b[2]
    \/ a[1] = b[1] /\ a[2] = b[2] /\ a[3] <= b[3]

NonDecreasing(lines) ==
    \A i \in 1 .. Len(lines) - 1 : XYZNotAfter(lines[i], lines[i + 1])

LinesOf(lines) == {lines[i] : i \in DOMAIN lines}

(* C30: on a document whose root holds a 'snapshots' array,                 *)
(* justPrintVoxelCoordinates and printSimpleVoxelCoordinates are equivalent:*)
(* from the same voxel state every snapshot takes both to the same state,   *)
(* which is the state the running driver gets; and after the loop both      *)
(* print the same set of lines (x, y, z, color), in non-decreasing          *)
(* lexicographic order of (x, y, z), as many as there are stored entries    *)
(* with a color other than 0.                                               *)
DriverEquivalence ==
    [][(entry \in {"printSimple", "justPrint"} /\ root = "array" /\ pc = "loop")
          => /\ snapshotIndex' = snapshotIndex + 1
                  => \A simple \in {SimpleIteration(finalVoxelState, cur')},
                        just \in {JustIteration(finalVoxelState, cur')} :
                         /\ simple.state = just.state
                         /\ simple.outcome = just.outcome
                         /\ finalVoxelState' = simple.state
             /\ pc' = "done"
                  => \A just \in {TupleSorted(finalVoxelState, Visible(finalVoxelState))} :
                         /\ visibleVoxels' = just
                               \/ visibleVoxels' \in CoordSorted(finalVoxelState,
                                                                 Visible(finalVoxelState))
                         /\ NonDecreasing(just)
                         /\ Len(just) = Cardinality(Visible(finalVoxelState))
                         /\ \A simple \in CoordSorted(finalVoxelState, Visible(finalVoxelState)) :
                               /\ LinesOf(simple) = LinesOf(just)
                               /\ Len(simple) = Len(just)
                               /\ NonDecreasing(simple)]_vars

DriverEquivalenceWitness ==
    /\ entry = "justPrint" /\ root = "array" /\ pc = "done"
    /\ Len(visibleVoxels) = 2
    /\ visibleVoxels[1][4] > visibleVoxels[2][4]
    /\ \E p \in DOMAIN finalVoxelState[0] : finalVoxelState[0][p] = 0

=============================================================================
